---- MODULE Spec2Model ----
(***************************************************************************)
(* A model of the PDF generator: the Font's single-byte encoding          *)
(* allocator (encodeRune), the object encoder (getRef / encode), the       *)
(* Document / pageTree / Page / stream / Font / charProcs / type3Glyph     *)
(* writers, and the text layout operations (encodeAndKern, Truncate,       *)
(* WordWrap).                                                              *)
(***************************************************************************)
EXTENDS Integers, Sequences, FiniteSets, TLC

(***************************************************************************)
(* Bounds of the model.                                                    *)
(***************************************************************************)
\* Number of distinct runes outside Windows-1252 that may be encoded.
MaxFresh == 160

\* Longest text, in runes, passed to Truncate and WordWrap.
MaxText == 5

\* Number of fonts loaded into the Document.
MaxFonts == 2

MaxPages == 2

MaxCalls == 2

MaxEncodes == 2

MaxBlocks == 16

MaxSegs == 2

MaxNodes == 3

MaxRefs == 2

(***************************************************************************)
(* charmap.Windows1252 (golang.org/x/text), as used by encodeRune and      *)
(* Font.writeTo: bytes 0x00-0x7F and 0xA0-0xFF decode to the rune of the   *)
(* same value, bytes 0x80-0x9F by the table below.                         *)
(***************************************************************************)
Windows1252High ==
  << 8364, 129, 8218, 402, 8222, 8230, 8224, 8225,
     710, 8240, 352, 8249, 338, 141, 381, 143,
     144, 8216, 8217, 8220, 8221, 8226, 8211, 8212,
     732, 8482, 353, 8250, 339, 157, 382, 376 >>

Windows1252DecodeByte(b) ==
  IF b < 128 \/ b >= 160 THEN b ELSE Windows1252High[b - 127]

\* charmap.Windows1252.EncodeRune(r): <<b, ok>>; the replacement byte 0x1A
\* comes with ok = FALSE.
Windows1252EncodeRune(r) ==
  IF (0 <= r /\ r < 128) \/ (160 <= r /\ r <= 255) THEN << r, TRUE >>
  ELSE IF \E b \in 128..159 : Windows1252High[b - 127] = r
  THEN << CHOOSE b \in 128..159 : Windows1252High[b - 127] = r, TRUE >>
  ELSE << 26, FALSE >>

(***************************************************************************)
(* Runes.                                                                  *)
(***************************************************************************)
\* No call made yet (lastRune), no rune.
NoRune == -1

\* The k-th rune outside Windows-1252 (CJK ideographs from U+4E00 on).
NonBase(k) == 19968 + k

Ellipsis == 8230

\* Runes of Windows-1252 offered to encodeRune: U+0001 and space.
BaseRunes == {1, 32}

(***************************************************************************)
(* State.                                                                  *)
(***************************************************************************)
VARIABLES
  encode,     \* Font.encode: map[rune]byte, a function on the runes present
  toUnicode,  \* Font.toUnicode: [256]rune, 0 = unused
  lastRune,   \* argument of the latest encodeRune call
  lastB,      \* its result b
  lastOk,     \* its result ok
  pages,      \* Document.pages.pages: the Pages, in NewPage order
  docFonts,   \* the Fonts loaded into the Document, by font number
  sfnt,       \* the font program read by golang.org/x/image/font/sfnt
  lastOp,     \* the latest Truncate / WordWrap call and where its output starts
  enc,        \* the encoder: Buffer, objects, offsets, refs
  pc,         \* "build": no encode running; "loop": in encode's loop; "done"
  idx,        \* encode's loop variable i
  rootRef,    \* encode's local rootRef
  fontOrder,  \* per Page, the order the latest range over p.fonts took
  outs        \* the results of the Document.Encode calls made so far

fontVars == << encode, toUnicode, lastRune, lastB, lastOk >>

docVars == << pages, docFonts, sfnt, lastOp >>

encVars == << enc, pc, idx, rootRef, fontOrder, outs >>

vars == << encode, toUnicode, lastRune, lastB, lastOk,
           pages, docFonts, sfnt, lastOp,
           enc, pc, idx, rootRef, fontOrder, outs >>

(***************************************************************************)
(* Font.encodeRune                                                         *)
(***************************************************************************)
\* A Font as LoadFont leaves it: an empty encode map, a zeroed toUnicode.
NewFont == [ encode |-> << >>, toUnicode |-> [ i \in 0..255 |-> 0 ] ]

RECURSIVE spillLow(_, _, _)
\* for i := 31; i > 0 && b == 0; i-- { if f.toUnicode[i] == 0 { b = byte(i) } }
spillLow(tu, i, b) ==
  IF i > 0 /\ b = 0
  THEN spillLow(tu, i - 1, IF tu[i] = 0 THEN i ELSE b)
  ELSE b

RECURSIVE spillHigh(_, _, _)
\* for i := 127; i < 256 && b == 0; i++ { if f.toUnicode[i] == 0 { b = byte(i) } }
spillHigh(tu, i, b) ==
  IF i < 256 /\ b = 0
  THEN spillHigh(tu, i + 1, IF tu[i] = 0 THEN i ELSE b)
  ELSE b

RECURSIVE spillPrintable(_, _, _)
\* for i := 126; i > 32 && b == 1; i-- { if f.toUnicode[i] == 0 { b = byte(i) } }
spillPrintable(tu, i, b) ==
  IF i > 32 /\ b = 1
  THEN spillPrintable(tu, i - 1, IF tu[i] = 0 THEN i ELSE b)
  ELSE b

\* The three spill loops of encodeRune in sequence, from b = 0.
spillSlot(tu) ==
  spillPrintable(tu, 126, spillHigh(tu, 127, spillLow(tu, 31, 0)))

\* f.encode[r] = b; f.toUnicode[b] = r
assign(f, r, b) ==
  [ encode    |-> [ q \in (DOMAIN f.encode) \cup {r} |->
                      IF q = r THEN b ELSE f.encode[q] ],
    toUnicode |-> [ f.toUnicode EXCEPT ![b] = r ] ]

\* encodeRune taking the Windows-1252 slot without testing f.toUnicode[b] == 0.
encodeRuneNoSlotTest(f, r) ==
  IF r \in DOMAIN f.encode
  THEN [ f |-> f, b |-> f.encode[r], ok |-> TRUE ]
  ELSE LET w == Windows1252EncodeRune(r) IN
       IF w[2]
       THEN [ f |-> assign(f, r, w[1]), b |-> w[1], ok |-> TRUE ]
       ELSE LET b == spillSlot(f.toUnicode) IN
            IF b # 0
            THEN [ f |-> assign(f, r, b), b |-> b, ok |-> TRUE ]
            ELSE [ f |-> f, b |-> 0, ok |-> FALSE ]

\* encodeRune without the lookup of r in f.encode.
encodeRuneNoLookup(f, r) ==
  LET w == Windows1252EncodeRune(r) IN
  IF w[2] /\ f.toUnicode[w[1]] = 0
  THEN [ f |-> assign(f, r, w[1]), b |-> w[1], ok |-> TRUE ]
  ELSE LET b == spillSlot(f.toUnicode) IN
       IF b # 0
       THEN [ f |-> assign(f, r, b), b |-> b, ok |-> TRUE ]
       ELSE [ f |-> f, b |-> 0, ok |-> FALSE ]

\* encodeRune(r) on font f: the font afterwards and the results b, ok.
encodeRune(f, r) ==
  IF r \in DOMAIN f.encode
  THEN [ f |-> f, b |-> f.encode[r], ok |-> TRUE ]
  ELSE LET w == Windows1252EncodeRune(r) IN
       IF w[2] /\ f.toUnicode[w[1]] = 0
       THEN [ f |-> assign(f, r, w[1]), b |-> w[1], ok |-> TRUE ]
       ELSE LET b == spillSlot(f.toUnicode) IN
            IF b # 0
            THEN [ f |-> assign(f, r, b), b |-> b, ok |-> TRUE ]
            ELSE [ f |-> f, b |-> 0, ok |-> FALSE ]

\* The Font of the allocator specification.
theFont == [ encode |-> encode, toUnicode |-> toUnicode ]

\* The fresh non-Windows-1252 rune offered next. encodeRune uses a rune
\* outside Windows-1252 only as a map key, so such runes are interchangeable
\* and are offered in increasing order.
nextFresh == Cardinality((DOMAIN encode) \ BaseRunes)

\* Runes a caller may pass: the Windows-1252 runes of BaseRunes, the next
\* fresh rune, and the runes encoded before that are worth repeating.
callRunes ==
  BaseRunes
    \cup (IF nextFresh < MaxFresh THEN {NonBase(nextFresh)} ELSE {})
    \cup (IF lastRune # NoRune THEN {lastRune} ELSE {})

\* One call f.encodeRune(r) by a caller.
EncodeRune(r) ==
  LET res == encodeRune(theFont, r) IN
  /\ encode' = res.f.encode
  /\ toUnicode' = res.f.toUnicode
  /\ lastRune' = r
  /\ lastB' = res.b
  /\ lastOk' = res.ok
  /\ UNCHANGED << docVars, encVars >>

\* No font program loaded; no text operation called yet.
NoSfnt == [ adv |-> << >>, kern |-> << >>, outline |-> << >>, bounds |-> << >> ]

NoOp == [ op |-> "none", s |-> << >>, budget |-> 0, from |-> 0 ]

\* The Font variables before any call.
FontIdle ==
  /\ encode = NewFont.encode
  /\ toUnicode = NewFont.toUnicode
  /\ lastRune = NoRune
  /\ lastB = 0
  /\ lastOk = FALSE

FontInit ==
  /\ FontIdle
  /\ pages = << >>
  /\ docFonts = << >>
  /\ sfnt = NoSfnt
  /\ lastOp = NoOp
  /\ enc = << >>
  /\ pc = "build"
  /\ idx = 0
  /\ rootRef = 0
  /\ fontOrder = << >>
  /\ outs = << >>

FontNext == \E r \in callRunes : EncodeRune(r)

SpecFont == FontInit /\ [][FontNext]_vars

(***************************************************************************)
(* Claims about encodeRune (SpecFont).                                     *)
(***************************************************************************)
\* C1: after any sequence of encodeRune calls no byte code belongs to two
\* runes (encode is injective) and toUnicode[encode[r]] = r for every rune
\* r of encode.
C1_CodesDistinct ==
  /\ Cardinality({ encode[r] : r \in DOMAIN encode }) = Cardinality(DOMAIN encode)
  /\ \A r \in DOMAIN encode : toUnicode[encode[r]] = r

\* U+0001 found its Windows-1252 slot taken by a spilled rune and was itself
\* spilled: two runes competed for byte 1.
C1_Witness ==
  /\ 1 \in DOMAIN encode
  /\ encode[1] # 1
  /\ toUnicode[1] # 0

\* C2: a rune once encoded keeps its code: every later encodeRune(r) returns
\* (encode[r], true) and changes neither encode nor toUnicode, and no call
\* changes the code of any rune encoded before.
C2_Permanent ==
  [][ /\ \A r \in DOMAIN encode : r \in DOMAIN encode' /\ encode'[r] = encode[r]
      /\ lastRune' \in DOMAIN encode =>
            /\ lastB' = encode[lastRune']
            /\ lastOk'
            /\ encode' = encode
            /\ toUnicode' = toUnicode ]_vars

\* U+0001 is encoded again after other runes were: NonBase(30) was spilled
\* to 126 while byte 1 was free, NonBase(31) to 127 when U+0001 held byte
\* 1, and the latest call is encodeRune(U+0001), returning 1 again.
C2_Witness ==
  /\ {1, NonBase(30), NonBase(31)} \subseteq DOMAIN encode
  /\ encode[NonBase(30)] = 126
  /\ encode[NonBase(31)] = 127
  /\ lastRune = 1 /\ lastB = 1 /\ lastOk

\* The runes for which the call takes the spill path: not yet encoded, and
\* the Windows-1252 slot missing or occupied.
needsSpill(r) ==
  /\ r \notin DOMAIN encode
  /\ LET w == Windows1252EncodeRune(r) IN ~w[2] \/ toUnicode[w[1]] # 0

freeCodes(lo, hi) == { c \in lo..hi : toUnicode[c] = 0 }

\* C3: a call that spills and assigns a code assigns the highest free code
\* of 1..31 if there is one, otherwise the lowest free code of 127..255.
C3_SpillPriority ==
  [][ (needsSpill(lastRune') /\ lastOk') =>
        IF freeCodes(1, 31) # {}
        THEN \A c \in freeCodes(1, 31) : c <= lastB' /\ lastB' \in 1..31
        ELSE \A c \in freeCodes(127, 255) : c >= lastB' /\ lastB' \in 127..255
    ]_vars

\* C4: a call fails only when no code of 1..255 is unused, and never while
\* at most 255 distinct runes have been passed.
C4_Supports255 ==
  (lastRune # NoRune /\ ~lastOk) =>
    /\ freeCodes(1, 255) = {}
    /\ Cardinality((DOMAIN encode) \cup {lastRune}) > 255

(***************************************************************************)
(* Output.  What the program writes is kept as a sequence of chunks: a     *)
(* text written by fmt or WriteString, a decimal integer, or raw bytes (a  *)
(* quoted string of character codes).  The byte length of a chunk is that  *)
(* of its printed form.                                                    *)
(***************************************************************************)
T(s) == [ k |-> "text", s |-> s, b |-> << >>, n |-> 0 ]

\* strconv.Itoa(n) / %d
I(n) == [ k |-> "int", s |-> "", b |-> << >>, n |-> n ]

Bytes(b) == [ k |-> "bytes", s |-> "", b |-> b, n |-> 0 ]

chunkLen(c) ==
  IF c.k = "text" THEN Len(c.s)
  ELSE IF c.k = "int" THEN Len(ToString(c.n))
  ELSE Len(c.b)

RECURSIVE byteSum(_, _, _)
\* The number of bytes of the chunks lo..hi of cs, summed by halves.
byteSum(cs, lo, hi) ==
  IF lo > hi THEN 0
  ELSE IF lo = hi THEN chunkLen(cs[lo])
  ELSE byteSum(cs, lo, (lo + hi) \div 2) + byteSum(cs, ((lo + hi) \div 2) + 1, hi)

\* The number of bytes of the first n chunks of cs.
byteLen(cs, n) == byteSum(cs, 1, n)

\* %g of a float64 holding an integer of magnitude below 1e6: its decimal
\* digits, no exponent.
fmtG(v) == ToString(v)

\* Go's integer division and int(float): truncation towards zero.
truncDiv(a, b) ==
  IF (a >= 0) = (b > 0) \/ a % b = 0 THEN a \div b ELSE (a \div b) + 1

RECURSIVE escape(_)
\* stringEscaper.Replace: \n \r \t ( ) \ get a backslash.
escape(b) ==
  IF b = << >> THEN << >>
  ELSE LET c == Head(b)
           e == IF c = 10 THEN << 92, 110 >>
                ELSE IF c = 13 THEN << 92, 114 >>
                ELSE IF c = 9 THEN << 92, 116 >>
                ELSE IF c \in {40, 41, 92} THEN << 92, c >>
                ELSE << c >>
       IN e \o escape(Tail(b))

quoteString(b) == Bytes(<< 40 >> \o escape(b) \o << 41 >>)

(***************************************************************************)
(* The font program (package sfnt).  A glyph index is identified with the  *)
(* rune it belongs to; the reader's error returns are not modelled.  adv   *)
(* and kern hold the values already rounded to integers at 1000 units/em.  *)
(***************************************************************************)
glyphIndex(sf, r) == r

glyphAdvance(sf, g) == IF g \in DOMAIN sf.adv THEN sf.adv[g] ELSE 0

glyphKern(sf, g1, g2) ==
  IF << g1, g2 >> \in DOMAIN sf.kern THEN sf.kern[<< g1, g2 >>] ELSE 0

runeWidth(sf, r) == glyphAdvance(sf, glyphIndex(sf, r))

(***************************************************************************)
(* Font.encodeString and Font.encodeAndKern                                *)
(***************************************************************************)
RECURSIVE encodeStringFrom(_, _, _, _)
encodeStringFrom(f, s, i, b) ==
  IF i > Len(s) THEN [ f |-> f, b |-> b ]
  ELSE LET res == encodeRune(f, s[i]) IN
       encodeStringFrom(res.f, s, i + 1,
                        IF res.ok THEN Append(b, res.b) ELSE b)

\* encodeString(s): the font afterwards and the bytes.
encodeString(f, s) == encodeStringFrom(f, s, 1, << >>)

RECURSIVE kernLoop(_, _, _, _, _, _)
\* The loop of encodeAndKern from index i (0-based) on the encoded bytes s;
\* st holds its locals tj, width, chunkStart and prevGlyph.
kernLoop(tu, sf, s, maxWidth, i, st) ==
  IF i >= Len(s)
  THEN [ tj    |-> Append(st.tj, quoteString(SubSeq(s, st.chunkStart + 1, Len(s)))),
         width |-> st.width ]
  ELSE
    LET g == glyphIndex(sf, tu[s[i + 1]])
        oldWidth == st.width
        width == st.width + glyphAdvance(sf, g)
    IN
    IF maxWidth # 0 /\ width > maxWidth
    THEN [ tj    |-> Append(st.tj, quoteString(SubSeq(s, st.chunkStart + 1, i))),
           width |-> oldWidth ]
    ELSE
      LET kern == IF i # 0 THEN glyphKern(sf, st.prevGlyph, g) ELSE 0 IN
      kernLoop(tu, sf, s, maxWidth, i + 1,
        IF kern # 0
        THEN [ tj         |-> st.tj \o << quoteString(SubSeq(s, st.chunkStart + 1, i)),
                                          I(-kern) >>,
               width      |-> width + kern,
               chunkStart |-> i,
               prevGlyph  |-> g ]
        ELSE [ st EXCEPT !.width = width, !.prevGlyph = g ])

\* The results of encodeAndKern: the font afterwards, tj and width.
kerned(f, r) == [ f |-> f, tj |-> r.tj, width |-> r.width ]

\* encodeAndKern after s = f.encodeString(s), es its outcome.
kernEncoded(es, sf, maxWidth) ==
  kerned(es.f,
         kernLoop(es.f.toUnicode, sf, es.b, maxWidth, 0,
                  [ tj |-> << >>, width |-> 0, chunkStart |-> 0, prevGlyph |-> 0 ]))

\* encodeAndKern(s, maxWidth)
encodeAndKern(f, sf, s, maxWidth) == kernEncoded(encodeString(f, s), sf, maxWidth)

RECURSIVE joinSpace(_)
joinSpace(tj) ==
  IF Len(tj) <= 1 THEN tj
  ELSE << Head(tj), T(" ") >> \o joinSpace(Tail(tj))

\* fmt.Fprintf(p.contents, "%v TJ ", tj)
showTJ(tj) == << T("[") >> \o joinSpace(tj) \o << T("] TJ ") >>

(***************************************************************************)
(* Page: SetFont and the text operations.  A Page is a record of its       *)
(* fields; contents holds the chunks written to the content stream, fonts  *)
(* maps font numbers to the local ids, currentFont = 0 is nil.  Each text  *)
(* operation takes the Page p, its current Font f and the font program sf  *)
(* and yields both afterwards.                                             *)
(***************************************************************************)
\* Document.NewPage(width, height)
newPage(width, height) ==
  [ width |-> width, height |-> height, contents |-> << >>,
    fonts |-> << >>, currentFont |-> 0, currentSize |-> 0 ]

\* Page.SetFont(f, size), f by its number
setFont(p, fno, size) ==
  LET known  == fno \in DOMAIN p.fonts
      fontID == IF known THEN p.fonts[fno] ELSE Cardinality(DOMAIN p.fonts)
      fonts  == IF known THEN p.fonts
                ELSE [ q \in (DOMAIN p.fonts) \cup {fno} |->
                         IF q = fno THEN fontID ELSE p.fonts[q] ]
  IN [ p EXCEPT !.fonts = fonts,
                !.contents = Append(@, T("/F" \o ToString(fontID) \o " "
                                         \o fmtG(size) \o " Tf ")),
                !.currentFont = fno,
                !.currentSize = size ]

\* beginText and fmt.Fprintf(p.contents, "%g %g Td ", x, y)
beginAt(x, y) == << T("BT "), T(fmtG(x) \o " " \o fmtG(y) \o " Td ") >>

endText == << T("ET ") >>

\* A text object showing tj at (x, y) appended to p's contents, and the
\* font f as the operation leaves it.
shownAt(p, x, y, tj, f) ==
  [ p |-> [ p EXCEPT !.contents = @ \o beginAt(x, y) \o showTJ(tj) \o endText ],
    f |-> f ]

\* Page.Left after tj, _ := p.currentFont.encodeAndKern(s, 0), r its outcome.
leftShow(p, x, y, r) == shownAt(p, x, y, r.tj, r.f)

\* Page.Left(x, y, s)
left(p, f, sf, x, y, s) == leftShow(p, x, y, encodeAndKern(f, sf, s, 0))

\* scaledWidth := int(width / p.currentSize * 1000), for the sizes and
\* widths used here, whose quotient is exact in float64.
scaled(width, size) == truncDiv(width * 1000, size)

\* Truncate after ellipsis, ok := p.currentFont.encodeRune('...'), e its
\* outcome, with tj as cut.
truncateEllipsis(p, x, y, tj, e) ==
  shownAt(p, x, y, IF e.ok THEN Append(tj, quoteString(<< e.b >>)) ELSE tj, e.f)

\* Truncate after the second encodeAndKern, cut its outcome.
truncateCut(p, x, y, cut) ==
  truncateEllipsis(p, x, y, cut.tj, encodeRune(cut.f, Ellipsis))

\* Truncate after full, w := p.currentFont.encodeAndKern(s, 0).
truncateFull(p, sf, x, y, scaledWidth, s, full) ==
  IF full.width <= scaledWidth
  THEN shownAt(p, x, y, full.tj, full.f)
  ELSE truncateCut(p, x, y,
         encodeAndKern(full.f, sf, s, scaledWidth - runeWidth(sf, Ellipsis)))

\* Page.Truncate(x, y, width, s)
truncate(p, f, sf, x, y, width, s) ==
  truncateFull(p, sf, x, y, scaled(width, p.currentSize), s,
               encodeAndKern(f, sf, s, 0))

\* unicode.IsSpace for the runes below U+0100.
isSpace(r) == r \in {9, 10, 11, 12, 13, 32, 133, 160}

RECURSIVE fieldsFrom(_, _, _, _)
\* strings.Fields: the maximal runs of non-space runes of s, from index i,
\* with the run read so far in cur.
fieldsFrom(s, i, cur, out) ==
  IF i > Len(s) THEN (IF cur = << >> THEN out ELSE Append(out, cur))
  ELSE IF isSpace(s[i])
       THEN fieldsFrom(s, i + 1, << >>, IF cur = << >> THEN out ELSE Append(out, cur))
       ELSE fieldsFrom(s, i + 1, Append(cur, s[i]), out)

fields(s) == fieldsFrom(s, 1, << >>, << >>)

RECURSIVE packLine(_, _, _, _, _, _, _)
RECURSIVE packWord(_, _, _, _, _, _, _)
\* packWord testing the line's width before the word is added to it.
packWordLate(sf, words, i, scaledMargin, line, lineWidth, w) ==
  IF lineWidth > scaledMargin
  THEN [ f |-> w.f, line |-> line, i |-> i ]
  ELSE packLine(w.f, sf, words, i + 1, scaledMargin,
                line \o w.tj, lineWidth + w.width)

\* The inner loop of WordWrap after
\* word, wordWidth := encodeAndKern(" "+words[i], 0), w its outcome.
packWord(sf, words, i, scaledMargin, line, lineWidth, w) ==
  IF lineWidth + w.width > scaledMargin
  THEN [ f |-> w.f, line |-> line, i |-> i ]
  ELSE packLine(w.f, sf, words, i + 1, scaledMargin,
                line \o w.tj, lineWidth + w.width)

\* The inner loop of WordWrap from word index i (0-based).
packLine(f, sf, words, i, scaledMargin, line, lineWidth) ==
  IF i >= Len(words) THEN [ f |-> f, line |-> line, i |-> i ]
  ELSE packWord(sf, words, i, scaledMargin, line, lineWidth,
                encodeAndKern(f, sf, << 32 >> \o words[i + 1], 0))

RECURSIVE wrapLines(_, _, _, _, _, _)
RECURSIVE wrapLine(_, _, _, _, _)
\* wrapLine writing "T* " after every line, the last one too.
wrapLineAlways(sf, words, scaledMargin, out, l) ==
  wrapLines(l.f, sf, words, l.i, scaledMargin,
            out \o showTJ(l.line) \o << T("T* ") >>)

\* The outer loop of WordWrap after its inner loop, l the outcome: the
\* line is written, and "T* " if words remain.
wrapLine(sf, words, scaledMargin, out, l) ==
  wrapLines(l.f, sf, words, l.i, scaledMargin,
            out \o showTJ(l.line)
                \o (IF l.i < Len(words) THEN << T("T* ") >> ELSE << >>))

\* The outer loop of WordWrap after
\* line, lineWidth := encodeAndKern(words[i], 0); i++, first its outcome.
wrapFirst(sf, words, i, scaledMargin, out, first) ==
  wrapLine(sf, words, scaledMargin, out,
           packLine(first.f, sf, words, i + 1, scaledMargin,
                    first.tj, first.width))

\* The outer loop of WordWrap from word index i (0-based); out holds the
\* chunks written so far.
wrapLines(f, sf, words, i, scaledMargin, out) ==
  IF i >= Len(words) THEN [ f |-> f, out |-> out ]
  ELSE wrapFirst(sf, words, i, scaledMargin, out,
                 encodeAndKern(f, sf, words[i + 1], 0))

\* WordWrap after its loops, r their outcome.
wrapShow(p, x, y, r) ==
  [ p |-> [ p EXCEPT !.contents = @ \o beginAt(x, y) \o r.out \o endText ],
    f |-> r.f ]

\* Page.WordWrap(x, y, margin, s)
wordWrap(p, f, sf, x, y, margin, s) ==
  wrapShow(p, x, y,
           wrapLines(f, sf, fields(s), 0, scaled(margin, p.currentSize), << >>))

(***************************************************************************)
(* Text layout on one Page: Truncate and WordWrap (SpecText).              *)
(***************************************************************************)
FontNos == 1..MaxFonts

\* The encoder variables while no encode has been called.
EncIdle ==
  /\ enc = << >>
  /\ pc = "build"
  /\ idx = 0
  /\ rootRef = 0
  /\ fontOrder = << >>
  /\ outs = << >>

\* Font programs: advances of 'A', 'V', space and the ellipsis, and the
\* kerning of the pair A V, at 1000 units/em.
TextSfnts ==
  { [ adv  |-> (65 :> 400) @@ (86 :> v) @@ (32 :> 200) @@ (Ellipsis :> e),
      kern |-> (<< 65, 86 >> :> k),
      outline |-> << >>,
      bounds |-> << >> ] :
    v \in {400, 600}, e \in {0, 500}, k \in {-50, 0, 50} }

TextSize == 10

\* Margins of WordWrap in page units; at size 10 one unit is 100 glyph units.
TextWidths == {-5, 0, 5, 10, 15}

\* Widths of Truncate in page units: none below the ellipsis's own width.
TruncateWidths == {5, 10, 15}

textsOver(alphabet) == UNION { [ 1..n -> alphabet ] : n \in 0..MaxText }

TextInit ==
  /\ FontIdle
  /\ EncIdle
  /\ pages = << setFont(newPage(612, 792), 1, TextSize) >>
  /\ docFonts = [ f \in FontNos |-> NewFont ]
  /\ sfnt \in TextSfnts
  /\ lastOp = NoOp

\* The Page i and its current Font after a text operation, r its outcome.
textDone(i, r) ==
  /\ pages' = [ pages EXCEPT ![i] = r.p ]
  /\ docFonts' = [ docFonts EXCEPT ![pages[i].currentFont] = r.f ]

\* p.Truncate(72, 720, width, s) on Page i, the first text operation on it.
Truncate(i, width, s) ==
  /\ lastOp.op = "none"
  /\ pages[i].currentFont # 0
  /\ textDone(i, truncate(pages[i], docFonts[pages[i].currentFont], sfnt,
                          72, 720, width, s))
  /\ lastOp' = [ op |-> "Truncate", s |-> s,
                 budget |-> scaled(width, pages[i].currentSize),
                 from |-> Len(pages[i].contents) ]
  /\ UNCHANGED << fontVars, sfnt, encVars >>

\* p.WordWrap(72, 720, margin, s) on Page i, the first text operation on it.
WordWrap(i, margin, s) ==
  /\ lastOp.op = "none"
  /\ pages[i].currentFont # 0
  /\ textDone(i, wordWrap(pages[i], docFonts[pages[i].currentFont], sfnt,
                          72, 720, margin, s))
  /\ lastOp' = [ op |-> "WordWrap", s |-> s,
                 budget |-> scaled(margin, pages[i].currentSize),
                 from |-> Len(pages[i].contents) ]
  /\ UNCHANGED << fontVars, sfnt, encVars >>

TextNext ==
  \/ \E width \in TruncateWidths, s \in textsOver({65, 86}) : Truncate(1, width, s)
  \/ \E margin \in TextWidths, s \in textsOver({65, 86, 32}) : WordWrap(1, margin, s)

SpecText == TextInit /\ [][TextNext]_vars

(***************************************************************************)
(* What a content stream shows: reading back the chunks of the latest      *)
(* text operation as a PDF reader does.                                    *)
(***************************************************************************)
RECURSIVE unescape(_)
\* The bytes a PDF string body stands for.
unescape(b) ==
  IF b = << >> THEN << >>
  ELSE IF Head(b) = 92 /\ Len(b) >= 2
  THEN LET c == b[2]
           d == IF c = 110 THEN 10 ELSE IF c = 114 THEN 13
                ELSE IF c = 116 THEN 9 ELSE c
       IN << d >> \o unescape(Tail(Tail(b)))
  ELSE << Head(b) >> \o unescape(Tail(b))

\* The character codes of a "(...)" string chunk.
unquote(c) == unescape(SubSeq(c.b, 2, Len(c.b) - 1))

RECURSIVE shownArrays(_, _, _, _)
\* The TJ arrays among the chunks cs from index i: each the sequence of its
\* string and number entries.
shownArrays(cs, i, cur, out) ==
  IF i > Len(cs) THEN out
  ELSE LET c == cs[i] IN
       IF c = T("[") THEN shownArrays(cs, i + 1, << >>, out)
       ELSE IF c = T("] TJ ") THEN shownArrays(cs, i + 1, << >>, Append(out, cur))
       ELSE IF c.k \in {"bytes", "int"} THEN shownArrays(cs, i + 1, Append(cur, c), out)
       ELSE shownArrays(cs, i + 1, cur, out)

\* The arrays shown by the latest text operation, one per line.
lastLines ==
  shownArrays(pages[1].contents, lastOp.from + 1, << >>, << >>)

RECURSIVE arrayCodes(_)
\* The character codes of a TJ array, in order.
arrayCodes(a) ==
  IF a = << >> THEN << >>
  ELSE (IF Head(a).k = "bytes" THEN unquote(Head(a)) ELSE << >>)
         \o arrayCodes(Tail(a))

RECURSIVE sumAdvances(_, _, _)
sumAdvances(tu, sf, codes) ==
  IF codes = << >> THEN 0
  ELSE glyphAdvance(sf, glyphIndex(sf, tu[Head(codes)]))
         + sumAdvances(tu, sf, Tail(codes))

RECURSIVE sumNumbers(_)
sumNumbers(a) ==
  IF a = << >> THEN 0
  ELSE (IF Head(a).k = "int" THEN Head(a).n ELSE 0) + sumNumbers(Tail(a))

\* The glyph-space width of a TJ array as rendered: the advances of its
\* glyphs (the Widths of the font) less its number entries.
arrayWidth(tu, sf, a) == sumAdvances(tu, sf, arrayCodes(a)) - sumNumbers(a)

\* The runes a sequence of character codes shows.
codeRunes(tu, codes) == [ j \in 1..Len(codes) |-> tu[codes[j]] ]

RECURSIVE textWidth(_, _)
\* The full glyph-space width of the runes s: advances plus pair kerns.
textWidth(sf, s) ==
  IF s = << >> THEN 0
  ELSE glyphAdvance(sf, Head(s))
         + (IF Len(s) >= 2 THEN glyphKern(sf, s[1], s[2]) ELSE 0)
         + textWidth(sf, Tail(s))

\* The Font of Page 1 after the operation.
pageFont == docFonts[pages[1].currentFont]

(***************************************************************************)
(* Claims about Truncate and WordWrap (SpecText).                          *)
(***************************************************************************)
\* C9: when Truncate is given a text wider than the budget, what it shows
\* is a strict prefix of the text's codes followed by the ellipsis, and the
\* width of what it shows is at most the budget.
C9_TruncateFits ==
  (lastOp.op = "Truncate" /\ textWidth(sfnt, lastOp.s) > lastOp.budget) =>
    LET f     == pageFont
        full  == [ j \in 1..Len(lastOp.s) |-> f.encode[lastOp.s[j]] ]
        shown == lastLines[1]
    IN /\ Ellipsis \in DOMAIN f.encode
       /\ \E n \in 0..(Len(full) - 1) :
            arrayCodes(shown) = SubSeq(full, 1, n) \o << f.encode[Ellipsis] >>
       /\ arrayWidth(f.toUnicode, sfnt, shown) <= lastOp.budget

\* The words of a shown line.
lineWords(a) == fields(codeRunes(pageFont.toUnicode, arrayCodes(a)))

\* C10: every line WordWrap shows is made of whole consecutive words of the
\* text, and a line of two or more words is no wider than the margin budget.
C10_WrapWithinMargin ==
  lastOp.op = "WordWrap" =>
    LET words == fields(lastOp.s) IN
    \A l \in 1..Len(lastLines) :
      LET a == lastLines[l] IN
      /\ \E from \in 1..Len(words), to \in 1..Len(words) :
           lineWords(a) = SubSeq(words, from, to)
      /\ Len(lineWords(a)) >= 2 =>
           arrayWidth(pageFont.toUnicode, sfnt, a) <= lastOp.budget

\* WordWrap broke a text of three words into two lines: the first of two
\* words, and the third word, which no longer fitted, on its own.
C10_Witness ==
  /\ lastOp.op = "WordWrap"
  /\ Len(fields(lastOp.s)) = 3
  /\ Len(lastLines) = 2
  /\ Len(lineWords(lastLines[1])) = 2
  /\ arrayWidth(pageFont.toUnicode, sfnt, lastLines[1]) <= lastOp.budget

(***************************************************************************)
(* The encoder.  An object is named by its type and, for a Page, its       *)
(* content stream, a Font, its charProcs and a type3Glyph, by the page or  *)
(* font number it belongs to (and the rune of the glyph): one name per     *)
(* pointer.                                                                *)
(***************************************************************************)
Obj(kind, n, r) == [ kind |-> kind, n |-> n, r |-> r ]

docObj == Obj("Document", 0, 0)

treeObj == Obj("pageTree", 0, 0)

pageObj(i) == Obj("Page", i, 0)

streamObj(i) == Obj("stream", i, 0)

fontObj(fno) == Obj("Font", fno, 0)

procsObj(fno) == Obj("charProcs", fno, 0)

glyphObj(fno, r) == Obj("type3Glyph", fno, r)

\* new(encoder)
newEncoder == [ buf |-> << >>, objects |-> << >>, offsets |-> << >>, refs |-> << >> ]

\* e.Len()
bufLen(e) == byteLen(e.buf, Len(e.buf))

\* e.WriteString / fmt.Fprint(e, ...) of one chunk, of several
write(e, c) == [ e EXCEPT !.buf = Append(@, c) ]

writeAll(e, cs) == [ e EXCEPT !.buf = @ \o cs ]

\* getRef taking the reference number before the object is appended.
getRefStale(e, o) ==
  IF o \in DOMAIN e.refs THEN e
  ELSE [ e EXCEPT !.objects = Append(@, o),
                  !.refs = [ q \in (DOMAIN e.refs) \cup {o} |->
                               IF q = o THEN Len(e.objects) ELSE e.refs[q] ] ]

\* e.getRef(o): the encoder afterwards; the reference returned is refs[o].
getRef(e, o) ==
  IF o \in DOMAIN e.refs THEN e
  ELSE [ e EXCEPT !.objects = Append(@, o),
                  !.refs = [ q \in (DOMAIN e.refs) \cup {o} |->
                               IF q = o THEN Len(e.objects) + 1 ELSE e.refs[q] ] ]

\* The reference of o, written between pre and post, after e.getRef(o).
writeRef(e, o, pre, post) == write(e, T(pre \o ToString(e.refs[o]) \o post))

\* fmt.Fprintf(e, pre + "%d" + post, e.getRef(o))
writeRefTo(e, o, pre, post) == writeRef(getRef(e, o), o, pre, post)

(***************************************************************************)
(* Document.writeTo, pageTree.writeTo, Page.writeTo, stream.writeTo        *)
(***************************************************************************)
writeDocument(e) ==
  writeRefTo(e, treeObj, "<< /Type /Catalog /Pages ", " 0 R >>")

\* One iteration of pageTree.writeTo's loop, i 0-based, after getRef(page).
writeKid(e, i) ==
  writeRef(IF i > 0 THEN write(e, T(" ")) ELSE e, pageObj(i + 1), "", " 0 R")

RECURSIVE writeKids(_, _, _)
writeKids(e, n, i) ==
  IF i >= n THEN e
  ELSE writeKids(writeKid(getRef(e, pageObj(i + 1)), i), n, i + 1)

writePageTree(e, ps) ==
  write(writeKids(write(e, T("<< /Type /Pages /Count " \o ToString(Len(ps))
                               \o " /Kids [")),
                  Len(ps), 0),
        T("] >>"))

RECURSIVE writeFontRefs(_, _, _, _)
\* The range over p.fonts, taken in the order given, from its k-th entry.
writeFontRefs(e, p, order, k) ==
  IF k > Len(order) THEN e
  ELSE writeFontRefs(
         writeRefTo(e, fontObj(order[k]),
                    "/F" \o ToString(p.fonts[order[k]]) \o " ", " 0 R "),
         p, order, k + 1)

writePageFonts(e, p, order) ==
  IF Cardinality(DOMAIN p.fonts) > 0
  THEN write(writeFontRefs(write(e, T("/Font << ")), p, order, 1), T(">> "))
  ELSE e

\* Page.writeTo of Page i, whose range over p.fonts takes the order given.
writePage(e, p, i, order) ==
  writeAll(
    writePageFonts(
      write(
        writeRefTo(
          writeRefTo(write(e, T("<< /Type /Page ")),
                     treeObj, "/Parent ", " 0 R "),
          streamObj(i), "/Contents ", " 0 R "),
        T("/Resources << ")),
      p, order),
    << T(">> "),
       T("/MediaBox [0 0 " \o fmtG(p.width) \o " " \o fmtG(p.height) \o "] "),
       T(">>") >>)

\* stream.writeTo of a stream without compression or extraData holding the
\* chunks b.
writeStream(e, b) ==
  write(
    writeAll(
      writeAll(e, << T("<< /Length " \o ToString(byteLen(b, Len(b))) \o " "),
                     T(">>\n"),
                     T("stream\n") >>),
      b),
    T("\nendstream"))

(***************************************************************************)
(* Font.writeTo, charProcs.writeTo, type3Glyph.writeTo                     *)
(***************************************************************************)
hexDigit(d) ==
  << "0", "1", "2", "3", "4", "5", "6", "7",
     "8", "9", "A", "B", "C", "D", "E", "F" >>[d + 1]

\* The canonical name of a rune: a deterministic, injective function whose
\* names sort as their runes do.
glyphName(r) ==
  "uni" \o hexDigit((r \div 4096) % 16) \o hexDigit((r \div 256) % 16)
        \o hexDigit((r \div 16) % 16) \o hexDigit(r % 16)

\* fixed.Int26_6: Floor, Ceil, Round
fixFloor(x) == x \div 64

fixCeil(x) == (x + 63) \div 64

fixRound(x) == (x + 32) \div 64

\* sfnt.LoadGlyph at 1000 units per em
loadGlyph(sf, g) == IF g \in DOMAIN sf.outline THEN sf.outline[g] ELSE << >>

\* The first loop of Font.writeTo: the lowest populated code, 0 if none.
firstCharOf(tu) ==
  IF \E i \in 0..255 : tu[i] # 0
  THEN CHOOSE i \in 0..255 : tu[i] # 0 /\ \A j \in 0..(i - 1) : tu[j] = 0
  ELSE 0

\* The second loop: the highest populated code from firstChar on, 0 if none.
lastCharOf(tu, firstChar) ==
  IF \E i \in firstChar..255 : tu[i] # 0
  THEN CHOOSE i \in firstChar..255 : tu[i] # 0 /\ \A j \in (i + 1)..255 : tu[j] = 0
  ELSE 0

\* fontStep with prevDifference = i set for every populated code, not only
\* for the codes that differ.
fontStepAnyPrev(tu, sf, i, firstChar, st) ==
  LET r == tu[i]
      differs == r # Windows1252DecodeByte(i)
      w == glyphAdvance(sf, glyphIndex(sf, r))
  IN [ differences |->
         IF differs
         THEN (IF st.prevDifference # i - 1
               THEN Append(st.differences, ToString(i))
               ELSE st.differences) \o << "/" \o glyphName(r) >>
         ELSE st.differences,
       prevDifference |-> i,
       widths |-> [ st.widths EXCEPT ![i - firstChar + 1] = w ],
       procs |-> st.procs \cup {r} ]

\* The body of the loop over firstChar..lastChar for a populated code i.
fontStep(tu, sf, i, firstChar, st) ==
  LET r == tu[i]
      differs == r # Windows1252DecodeByte(i)
      w == glyphAdvance(sf, glyphIndex(sf, r))
  IN [ differences |->
         IF differs
         THEN (IF st.prevDifference # i - 1
               THEN Append(st.differences, ToString(i))
               ELSE st.differences) \o << "/" \o glyphName(r) >>
         ELSE st.differences,
       prevDifference |-> IF differs THEN i ELSE st.prevDifference,
       widths |-> [ st.widths EXCEPT ![i - firstChar + 1] = w ],
       procs |-> st.procs \cup {r} ]

RECURSIVE sortedCodes(_)
sortedCodes(cs) ==
  IF cs = {} THEN << >>
  ELSE LET m == CHOOSE x \in cs : \A y \in cs : x <= y
       IN << m >> \o sortedCodes(cs \ {m})

\* The codes of firstChar..lastChar that the loop does not skip (r # 0),
\* in the order it visits them.
populated(tu, firstChar, lastChar) ==
  sortedCodes({ i \in firstChar..lastChar : tu[i] # 0 })

RECURSIVE fontLoop(_, _, _, _, _, _)
\* The loop over firstChar..lastChar from the k-th populated code on.
fontLoop(tu, sf, codes, k, firstChar, st) ==
  IF k > Len(codes) THEN st
  ELSE fontLoop(tu, sf, codes, k + 1, firstChar,
                fontStep(tu, sf, codes[k], firstChar, st))

\* widths, cp and differences as Font.writeTo builds them.
fontTables(tu, sf, firstChar, lastChar) ==
  fontLoop(tu, sf, populated(tu, firstChar, lastChar), 1, firstChar,
           [ differences |-> << >>, prevDifference |-> -1,
             widths |-> [ j \in 1..(lastChar - firstChar + 1) |-> 0 ],
             procs |-> {} ])

RECURSIVE joinRange(_, _, _)
\* The elements lo..hi of ss with a space between neighbours, joined by
\* halves.
joinRange(ss, lo, hi) ==
  IF lo = hi THEN ss[lo]
  ELSE joinRange(ss, lo, (lo + hi) \div 2) \o " "
         \o joinRange(ss, (lo + hi) \div 2 + 1, hi)

joinStrings(ss) == IF ss = << >> THEN "" ELSE joinRange(ss, 1, Len(ss))

\* %v of a []string, %d of a []int
fmtStrings(ss) == "[" \o joinStrings(ss) \o "]"

fmtInts(ns) == fmtStrings([ j \in DOMAIN ns |-> ToString(ns[j]) ])

\* bounds as Font.writeTo computes them from sfnt.Bounds
fontBounds(sf) ==
  IF sf.bounds = << >> THEN << >>
  ELSE << fixFloor(sf.bounds.minX), -fixCeil(sf.bounds.maxY),
          fixCeil(sf.bounds.maxX), -fixFloor(sf.bounds.minY) >>

\* The output of Font.writeTo once the loop has built st.
writeFontDict(e, fno, sf, firstChar, lastChar, st) ==
  write(
    writeRefTo(
      writeAll(e,
        << T("<< /Type /Font /Subtype /Type3\n"),
           IF Len(st.differences) = 0
           THEN T("/Encoding /WinAnsiEncoding\n")
           ELSE T("/Encoding << /BaseEncoding /WinAnsiEncoding /Differences "
                  \o fmtStrings(st.differences) \o " >>\n"),
           T("/FontBBox " \o fmtInts(fontBounds(sf)) \o "\n"),
           T("/FontMatrix [0.001 0 0 0.001 0 0]\n"),
           T("/FirstChar " \o ToString(firstChar) \o " /LastChar "
             \o ToString(lastChar) \o "\n"),
           T("/Widths " \o fmtInts(st.widths) \o "\n") >>),
      procsObj(fno), "/CharProcs ", " 0 R\n"),
    T(">>"))

writeFontRange(e, f, fno, sf, firstChar, lastChar) ==
  writeFontDict(e, fno, sf, firstChar, lastChar,
                fontTables(f.toUnicode, sf, firstChar, lastChar))

writeFontFrom(e, f, fno, sf, firstChar) ==
  writeFontRange(e, f, fno, sf, firstChar,
                 lastCharOf(f.toUnicode, firstChar))

\* Font.writeTo of Font fno, whose encoding table is f.
writeFont(e, f, fno, sf) ==
  writeFontFrom(e, f, fno, sf, firstCharOf(f.toUnicode))

\* cp.procs of Font fno, by rune: the runes of the populated codes.
fontProcs(f) == { f.toUnicode[i] : i \in 0..255 } \ {0}

RECURSIVE sortedRunes(_)
\* sort.Strings(names): names of equal length that sort as their runes do.
sortedRunes(rs) ==
  IF rs = {} THEN << >>
  ELSE LET m == CHOOSE x \in rs : \A y \in rs : x <= y
       IN << m >> \o sortedRunes(rs \ {m})

RECURSIVE writeProcRefs(_, _, _, _)
writeProcRefs(e, fno, names, k) ==
  IF k > Len(names) THEN e
  ELSE writeProcRefs(
         writeRefTo(e, glyphObj(fno, names[k]),
                    "/" \o glyphName(names[k]) \o " ", " 0 R\n"),
         fno, names, k + 1)

\* charProcs.writeTo of the charProcs of Font fno
writeCharProcs(e, f, fno) ==
  write(writeProcRefs(write(e, T("<<\n")), fno, sortedRunes(fontProcs(f)), 1),
        T(">>"))

\* pointCount taking the first point of every segment only.
pointCountOne(segment) == 1

\* pointCount := int(segment.Op); if pointCount == 0 { pointCount = 1 }
pointCount(segment) == IF segment.op = 0 THEN 1 ELSE segment.op

RECURSIVE glyphBox(_, _, _, _, _)
\* The loops over the segments and their points that widen min and max,
\* from point i (0-based) of segment k.
glyphBox(outline, k, i, min, max) ==
  IF k > Len(outline) THEN [ min |-> min, max |-> max ]
  ELSE IF i >= pointCount(outline[k]) THEN glyphBox(outline, k + 1, 0, min, max)
  ELSE glyphBox(outline, k, i + 1,
         [ X |-> IF outline[k].args[i + 1].X < min.X
                 THEN outline[k].args[i + 1].X ELSE min.X,
           Y |-> IF outline[k].args[i + 1].Y < min.Y
                 THEN outline[k].args[i + 1].Y ELSE min.Y ],
         [ X |-> IF outline[k].args[i + 1].X > max.X
                 THEN outline[k].args[i + 1].X ELSE max.X,
           Y |-> IF outline[k].args[i + 1].Y > max.Y
                 THEN outline[k].args[i + 1].Y ELSE max.Y ])

zeroPoint == [ X |-> 0, Y |-> 0 ]

\* min and max before min.Y, max.Y = -max.Y, -min.Y
glyphBounds(outline) ==
  IF Len(outline) > 0
  THEN glyphBox(outline, 1, 0, outline[1].args[1], outline[1].args[1])
  ELSE [ min |-> zeroPoint, max |-> zeroPoint ]

\* The d1 line, from the bounds bb before the flip of the Y axis.
glyphHeader(width, bb) ==
  T(ToString(width) \o " 0 " \o ToString(fixFloor(bb.min.X)) \o " "
    \o ToString(fixFloor(-bb.max.Y)) \o " " \o ToString(fixCeil(bb.max.X))
    \o " " \o ToString(fixCeil(-bb.min.Y)) \o " d1\n")

\* "%d %d" of a point: X.Round(), -Y.Round()
fmtPoint(p) == ToString(fixRound(p.X)) \o " " \o ToString(-fixRound(p.Y))

\* a + (b - a)*2/3 on both coordinates
twoThirds(a, b) ==
  [ X |-> a.X + truncDiv((b.X - a.X) * 2, 3),
    Y |-> a.Y + truncDiv((b.Y - a.Y) * 2, 3) ]

\* What one case of the switch on segment.Op prints.
segmentText(segment, current) ==
  IF segment.op = 0 THEN fmtPoint(segment.args[1]) \o " m\n"
  ELSE IF segment.op = 1 THEN fmtPoint(segment.args[1]) \o " l\n"
  ELSE IF segment.op = 2
  THEN fmtPoint(twoThirds(current, segment.args[1])) \o " "
       \o fmtPoint(twoThirds(segment.args[2], segment.args[1])) \o " "
       \o fmtPoint(segment.args[2]) \o " c\n"
  ELSE fmtPoint(segment.args[1]) \o " " \o fmtPoint(segment.args[2]) \o " "
       \o fmtPoint(segment.args[3]) \o " c\n"

\* current after the segment
segmentEnd(segment) ==
  IF segment.op = 2 THEN segment.args[2]
  ELSE IF segment.op = 3 THEN segment.args[3]
  ELSE segment.args[1]

RECURSIVE glyphPath(_, _, _)
glyphPath(outline, k, current) ==
  IF k > Len(outline) THEN << >>
  ELSE << T(segmentText(outline[k], current)) >>
       \o glyphPath(outline, k + 1, segmentEnd(outline[k]))

\* The stream s that type3Glyph.writeTo fills.
glyphStream(outline, width) ==
  << glyphHeader(width, glyphBounds(outline)) >>
  \o glyphPath(outline, 1, zeroPoint)
  \o (IF Len(outline) > 0 THEN << T("f") >> ELSE << >>)

\* type3Glyph.writeTo of the glyph of rune r
writeGlyph(e, sf, r) ==
  writeStream(e, glyphStream(loadGlyph(sf, glyphIndex(sf, r)),
                             glyphAdvance(sf, glyphIndex(sf, r))))

(***************************************************************************)
(* encoder.encode                                                          *)
(***************************************************************************)
\* o.writeTo(e) for every object but a Page
writeObject(e, o) ==
  CASE o.kind = "Document"   -> writeDocument(e)
    [] o.kind = "pageTree"   -> writePageTree(e, pages)
    [] o.kind = "stream"     -> writeStream(e, pages[o.n].contents)
    [] o.kind = "Font"       -> writeFont(e, docFonts[o.n], o.n, sfnt)
    [] o.kind = "charProcs"  -> writeCharProcs(e, docFonts[o.n], o.n)
    [] o.kind = "type3Glyph" -> writeGlyph(e, sfnt, o.r)

\* e.offsets = append(e.offsets, e.Len()) recording the offset only after
\* the "obj" line is written.
beginObjLate(e, i) ==
  LET h == write(e, T(ToString(i + 1) \o " 0 obj\n"))
  IN [ h EXCEPT !.offsets = Append(@, bufLen(h)) ]

\* e.offsets = append(e.offsets, e.Len()); fmt.Fprintf(e, "%d 0 obj\n", i+1)
beginObj(e, i) ==
  write([ e EXCEPT !.offsets = Append(@, bufLen(e)) ],
        T(ToString(i + 1) \o " 0 obj\n"))

endObj(e) == write(e, T("\nendobj\n"))

RECURSIVE zeros(_)
zeros(n) == IF n <= 0 THEN "" ELSE "0" \o zeros(n - 1)

\* %010d of a number that is not negative
Pad10(n) == zeros(10 - Len(ToString(n))) \o ToString(n)

\* The cross-reference table and the trailer, startxref being e.Len()
\* before "xref" is written, with the /Size entry one short.
writeTrailerShort(e, root, startxref) ==
  writeAll(e,
    << T("xref\n"),
       T("0 " \o ToString(Len(e.objects) + 1) \o "\n"),
       T("0000000000 65535 f\n") >>
    \o [ j \in DOMAIN e.offsets |-> T(Pad10(e.offsets[j]) \o " 00000 n\n") ]
    \o << T("trailer\n"),
          T("<< /Root " \o ToString(root) \o " 0 R /Size "
            \o ToString(Len(e.objects)) \o " >>\n"),
          T("startxref\n"),
          T(ToString(startxref) \o "\n"),
          T("%%EOF\n") >>)

\* The cross-reference table and the trailer, startxref being e.Len()
\* before "xref" is written.
writeTrailer(e, root, startxref) ==
  writeAll(e,
    << T("xref\n"),
       T("0 " \o ToString(Len(e.objects) + 1) \o "\n"),
       T("0000000000 65535 f\n") >>
    \o [ j \in DOMAIN e.offsets |-> T(Pad10(e.offsets[j]) \o " 00000 n\n") ]
    \o << T("trailer\n"),
          T("<< /Root " \o ToString(root) \o " 0 R /Size "
            \o ToString(Len(e.objects) + 1) \o " >>\n"),
          T("startxref\n"),
          T(ToString(startxref) \o "\n"),
          T("%%EOF\n") >>)

(***************************************************************************)
(* Building a document and encoding it                                     *)
(***************************************************************************)
\* A font program with advances for three glyphs, one kerning pair, an
\* outline with all four kinds of segment for 'A' and none for the others.
DocSfnt ==
  [ adv  |-> (65 :> 400) @@ (86 :> 600) @@ (NonBase(0) :> 1000),
    kern |-> (<< 65, 86 >> :> -50),
    outline |->
      (65 :> << [ op |-> 0, args |-> << [ X |-> 640, Y |-> 0 ],
                                        zeroPoint, zeroPoint >> ],
                [ op |-> 1, args |-> << [ X |-> 12800, Y |-> -44810 ],
                                        zeroPoint, zeroPoint >> ],
                [ op |-> 2, args |-> << [ X |-> 19200, Y |-> -51200 ],
                                        [ X |-> 25600, Y |-> -44790 ],
                                        zeroPoint >> ],
                [ op |-> 3, args |-> << [ X |-> 25600, Y |-> -20000 ],
                                        [ X |-> 20000, Y |-> 650 ],
                                        [ X |-> 640, Y |-> 0 ] >> ] >>),
    bounds |-> [ minX |-> -650, minY |-> -51200, maxX |-> 64010, maxY |-> 12810 ] ]

\* The strings shown on the pages: "AV", and one rune outside Windows-1252.
DocTexts == { << 65, 86 >>, << NonBase(0) >> }

DocSize == 12

\* The number of SetFont and Left calls made on a page so far: a SetFont
\* writes one Tf operator, a Left one BT operator.
pageCalls(p) ==
  Cardinality({ j \in DOMAIN p.contents :
                  \/ p.contents[j] = T("BT ")
                  \/ \E id \in 0..MaxFonts :
                       p.contents[j] = T("/F" \o ToString(id) \o " "
                                         \o fmtG(DocSize) \o " Tf ") })

EncInit ==
  /\ FontIdle
  /\ EncIdle
  /\ pages = << >>
  /\ docFonts = [ f \in FontNos |-> NewFont ]
  /\ sfnt = DocSfnt
  /\ lastOp = NoOp

\* d.NewPage(612, 792)
NewPage ==
  /\ pc = "build"
  /\ Len(pages) < MaxPages
  /\ pages' = Append(pages, newPage(612, 792))
  /\ UNCHANGED << fontVars, docFonts, sfnt, lastOp, encVars >>

\* p.SetFont(f, DocSize) on Page i
SetFont(i, fno) ==
  /\ pc = "build"
  /\ pageCalls(pages[i]) < MaxCalls
  /\ pages' = [ pages EXCEPT ![i] = setFont(@, fno, DocSize) ]
  /\ UNCHANGED << fontVars, docFonts, sfnt, lastOp, encVars >>

\* p.Left(72, 720, s) on Page i
Left(i, s) ==
  /\ pc = "build"
  /\ pageCalls(pages[i]) < MaxCalls
  /\ pages[i].currentFont # 0
  /\ textDone(i, left(pages[i], docFonts[pages[i].currentFont], sfnt,
                      72, 720, s))
  /\ UNCHANGED << fontVars, sfnt, lastOp, encVars >>

\* d.Encode() up to the loop over e.objects
EncodeBegin ==
  /\ pc \in { "build", "done" }
  /\ Len(outs) < MaxEncodes
  /\ enc' = getRef(write(newEncoder, T("%%PDF-1.7\n")), docObj)
  /\ rootRef' = enc'.refs[docObj]
  /\ idx' = 0
  /\ pc' = "loop"
  /\ fontOrder' = << >>
  /\ UNCHANGED << fontVars, docVars, outs >>

\* One iteration of the loop over e.objects, for an object that is no Page.
EncodeObject ==
  /\ pc = "loop"
  /\ idx < Len(enc.objects)
  /\ enc.objects[idx + 1].kind # "Page"
  /\ enc' = endObj(writeObject(beginObj(enc, idx), enc.objects[idx + 1]))
  /\ idx' = idx + 1
  /\ UNCHANGED << fontVars, docVars, pc, rootRef, fontOrder, outs >>

\* The orders in which a range over a map with the keys S can yield them.
rangeOrders(S) ==
  { q \in [ 1..Cardinality(S) -> S ] :
      \A a, b \in 1..Cardinality(S) : q[a] = q[b] => a = b }

\* One iteration of the loop over e.objects, for a Page: the range over
\* p.fonts yields the fonts in any order.
EncodePage ==
  /\ pc = "loop"
  /\ idx < Len(enc.objects)
  /\ enc.objects[idx + 1].kind = "Page"
  /\ \E order \in rangeOrders(DOMAIN pages[enc.objects[idx + 1].n].fonts) :
       /\ enc' = endObj(writePage(beginObj(enc, idx),
                                  pages[enc.objects[idx + 1].n],
                                  enc.objects[idx + 1].n, order))
       /\ fontOrder' = fontOrder @@ (enc.objects[idx + 1].n :> order)
  /\ idx' = idx + 1
  /\ UNCHANGED << fontVars, docVars, pc, rootRef, outs >>

\* EncodeEnd with the loop tested as i <= len(e.objects): the loop is left
\* only once i has gone past the last object.
EncodeEndPast ==
  /\ pc = "loop"
  /\ idx > Len(enc.objects)
  /\ enc' = writeTrailer(enc, rootRef, bufLen(enc))
  /\ outs' = Append(outs, enc'.buf)
  /\ pc' = "done"
  /\ UNCHANGED << fontVars, docVars, idx, rootRef, fontOrder >>

\* d.Encode() after the loop: the cross-reference table, the trailer and
\* the bytes returned.
EncodeEnd ==
  /\ pc = "loop"
  /\ idx >= Len(enc.objects)
  /\ enc' = writeTrailer(enc, rootRef, bufLen(enc))
  /\ outs' = Append(outs, enc'.buf)
  /\ pc' = "done"
  /\ UNCHANGED << fontVars, docVars, idx, rootRef, fontOrder >>

EncNext ==
  \/ NewPage
  \/ \E i \in DOMAIN pages, fno \in FontNos : SetFont(i, fno)
  \/ \E i \in DOMAIN pages, s \in DocTexts : Left(i, s)
  \/ EncodeBegin
  \/ EncodeObject
  \/ EncodePage
  \/ EncodeEnd

SpecEnc == EncInit /\ [][EncNext]_vars

(***************************************************************************)
(* Reading an encoded document back                                        *)
(***************************************************************************)
\* The objects whose references o.writeTo asks for, in the order of its
\* getRef calls.
refsOf(o) ==
  CASE o.kind = "Document"   -> << treeObj >>
    [] o.kind = "pageTree"   -> [ i \in DOMAIN pages |-> pageObj(i) ]
    [] o.kind = "Page"       ->
         << treeObj, streamObj(o.n) >>
         \o [ k \in DOMAIN fontOrder[o.n] |-> fontObj(fontOrder[o.n][k]) ]
    [] o.kind = "stream"     -> << >>
    [] o.kind = "Font"       -> << procsObj(o.n) >>
    [] o.kind = "charProcs"  ->
         [ k \in DOMAIN sortedRunes(fontProcs(docFonts[o.n])) |->
             glyphObj(o.n, sortedRunes(fontProcs(docFonts[o.n]))[k]) ]
    [] o.kind = "type3Glyph" -> << >>

seqRange(q) == { q[k] : k \in DOMAIN q }

posIn(q, o) == CHOOSE k \in DOMAIN q : q[k] = o

RECURSIVE dfsVisit(_, _), dfsChildren(_, _, _)
\* Depth-first first-discovery order: o, then all that is found from its
\* first reference, then from its second, and so on.
dfsVisit(found, o) ==
  IF o \in seqRange(found) THEN found
  ELSE dfsChildren(Append(found, o), refsOf(o), 1)

dfsChildren(found, cs, k) ==
  IF k > Len(cs) THEN found
  ELSE dfsChildren(dfsVisit(found, cs[k]), cs, k + 1)

depthFirstOrder == dfsVisit(<< >>, docObj)

RECURSIVE appendNew(_, _, _)
appendNew(found, cs, k) ==
  IF k > Len(cs) THEN found
  ELSE appendNew(IF cs[k] \in seqRange(found) THEN found
                 ELSE Append(found, cs[k]), cs, k + 1)

RECURSIVE bfsFrom(_, _)
\* Breadth-first first-discovery order: the references of the first object
\* found, then those of the second, and so on.
bfsFrom(found, i) ==
  IF i > Len(found) THEN found
  ELSE bfsFrom(appendNew(found, refsOf(found[i]), 1), i + 1)

breadthFirstOrder == bfsFrom(<< docObj >>, 1)

\* The output of the last Encode.
lastOut == outs[Len(outs)]

\* Where the header "<k> 0 obj" stands in the output, by chunk.
headerAt(out, k) ==
  { j \in DOMAIN out : out[j] = T(ToString(k) \o " 0 obj\n") }

\* The numbers of the objects written to the output.
written(out) == { k \in 1..Len(out) : headerAt(out, k) # {} }

\* The byte position at which the header of object k begins.
headerOffset(out, k) ==
  byteLen(out, (CHOOSE j \in headerAt(out, k) : TRUE) - 1)

\* Where the xref section begins, by chunk.
xrefAt(out) == CHOOSE j \in DOMAIN out : out[j] = T("xref\n")

\* The k-th in-use entry of the xref table.
xrefEntry(out, k) == out[xrefAt(out) + 2 + k]

\* The number of the object whose body is the catalog.
catalogNumber(out) ==
  CHOOSE k \in written(out) :
    \E m \in 1..Len(out) :
      out[(CHOOSE j \in headerAt(out, k) : TRUE) + 1]
        = T("<< /Type /Catalog /Pages " \o ToString(m) \o " 0 R >>")

\* C5 (as stated): after encode, every object reachable from the root has
\* one reference number, its 1-based position in depth-first
\* first-discovery order.
C5_DepthFirstOrder ==
  pc = "done" =>
    /\ DOMAIN enc.refs = seqRange(depthFirstOrder)
    /\ \A o \in DOMAIN enc.refs : enc.refs[o] = posIn(depthFirstOrder, o)

\* C5 (amended): after encode, every object reachable from the root has one
\* reference number, its 1-based position in breadth-first first-discovery
\* order: objects are written in the order of their numbers, and each
\* registers the objects it refers to while it is written.
C5_BreadthFirstOrder ==
  pc = "done" =>
    /\ DOMAIN enc.refs = seqRange(breadthFirstOrder)
    /\ Len(breadthFirstOrder) = Cardinality(DOMAIN enc.refs)
    /\ \A o \in DOMAIN enc.refs : enc.refs[o] = posIn(breadthFirstOrder, o)
    /\ written(lastOut) = 1..Len(breadthFirstOrder)

\* C5 witness: an encoded document with two pages and glyphs, on which the
\* two orders differ.
C5_Witness ==
  /\ pc = "done"
  /\ Len(pages) = 2
  /\ \E o \in DOMAIN enc.refs : o.kind = "type3Glyph"
  /\ depthFirstOrder # breadthFirstOrder

\* C6: the k-th in-use entry of the xref table holds the byte position at
\* which the header "<k> 0 obj" begins in the output, for every object
\* written.
C6_XrefOffsets ==
  pc = "done" =>
    \A k \in 1..Len(enc.objects) :
      /\ Cardinality(headerAt(lastOut, k)) = 1
      /\ xrefEntry(lastOut, k)
           = T(Pad10(headerOffset(lastOut, k)) \o " 00000 n\n")

\* C6 witness: an encoded document in which objects were registered while
\* the body of an earlier object was written, and in which an object
\* begins beyond the first thousand bytes.
C6_Witness ==
  /\ pc = "done"
  /\ \E o \in DOMAIN enc.refs : o.kind = "type3Glyph"
  /\ \E k \in 1..Len(enc.objects) : headerOffset(lastOut, k) > 1000

\* C7: the trailer agrees with the body: /Size and the count of the xref
\* subsection are the number of objects written plus one, the table holds
\* the free entry and then one in-use entry per object in the order of the
\* numbers, /Root is the number of the root, and startxref is the byte
\* offset at which the xref section begins.
C7_TrailerConsistent ==
  pc = "done" =>
    LET out == lastOut
        x == xrefAt(out)
        n == Cardinality(written(out))
    IN /\ written(out) = 1..n
       /\ out[x + 1] = T("0 " \o ToString(n + 1) \o "\n")
       /\ out[x + 2] = T("0000000000 65535 f\n")
       /\ \A k \in 1..n :
            out[x + 2 + k] = T(Pad10(headerOffset(out, k)) \o " 00000 n\n")
       /\ out[x + 3 + n] = T("trailer\n")
       /\ out[x + 4 + n] = T("<< /Root " \o ToString(catalogNumber(out))
                             \o " 0 R /Size " \o ToString(n + 1) \o " >>\n")
       /\ out[x + 5 + n] = T("startxref\n")
       /\ out[x + 6 + n] = T(ToString(byteLen(out, x - 1)) \o "\n")
       /\ out[x + 7 + n] = T("%%EOF\n")
       /\ Len(out) = x + 7 + n

\* C7 witness: an encoded document with a page, a font and a glyph.
C7_Witness ==
  /\ pc = "done"
  /\ Len(outs) = 1
  /\ Cardinality(written(lastOut)) >= 7
  /\ catalogNumber(lastOut) = 1

\* C8: two Encode calls on the same, unmodified Document give the same
\* bytes.
C8_EncodeDeterministic ==
  Len(outs) >= 2 => outs[1] = outs[2]

(***************************************************************************)
(* WordWrap on a Page on which text in many runes may have been shown      *)
(* before (SpecWrap).                                                      *)
(***************************************************************************)
\* The fresh runes of the n-th text shown before, 16 runes outside
\* Windows-1252.
freshText(n) == [ k \in 1..16 |-> NonBase(16 * n + k - 1) ]

\* The number of texts shown on Page 1 so far: one BT operator each.
shownFresh ==
  Cardinality({ j \in DOMAIN pages[1].contents : pages[1].contents[j] = T("BT ") })

\* Font programs for SpecWrap: two of TextSfnts, with and without kerning.
WrapSfnts ==
  { t \in TextSfnts :
      t.adv[86] = 400 /\ t.adv[Ellipsis] = 0 /\ t.kern[<< 65, 86 >>] <= 0 }

WrapInit ==
  /\ FontIdle
  /\ EncIdle
  /\ pages = << setFont(newPage(612, 792), 1, TextSize) >>
  /\ docFonts = [ f \in FontNos |-> NewFont ]
  /\ sfnt \in WrapSfnts
  /\ lastOp = NoOp

\* p.Left(72, 720, s) on Page 1, s the next text of fresh runes.
ShowFresh ==
  /\ lastOp.op = "none"
  /\ shownFresh < MaxBlocks
  /\ textDone(1, left(pages[1], pageFont, sfnt, 72, 720, freshText(shownFresh)))
  /\ UNCHANGED << fontVars, sfnt, lastOp, encVars >>

WrapNext ==
  \/ ShowFresh
  \/ \E margin \in TextWidths, s \in textsOver({65, 86, 32}) : WordWrap(1, margin, s)

SpecWrap == WrapInit /\ [][WrapNext]_vars

RECURSIVE wrapMarks(_, _)
\* The show and line-advance operators among the chunks cs from index i.
wrapMarks(cs, i) ==
  IF i > Len(cs) THEN << >>
  ELSE (IF cs[i] = T("] TJ ") THEN << "TJ" >>
        ELSE IF cs[i] = T("T* ") THEN << "T*" >>
        ELSE << >>) \o wrapMarks(cs, i + 1)

RECURSIVE allWords(_)
\* The words of the lines shown, in order.
allWords(lines) ==
  IF lines = << >> THEN << >>
  ELSE lineWords(Head(lines)) \o allWords(Tail(lines))

\* The latest operation shows the words of its text, each once and in
\* order, with a line advance between consecutive lines only.
wordsKept ==
  LET marks == wrapMarks(pages[1].contents, lastOp.from + 1) IN
  /\ allWords(lastLines) = fields(lastOp.s)
  /\ \A k \in DOMAIN marks : marks[k] = (IF k % 2 = 1 THEN "TJ" ELSE "T*")
  /\ Len(marks) = (IF Len(lastLines) = 0 THEN 0 ELSE 2 * Len(lastLines) - 1)

\* C11 (as stated): for every text and every margin, the words of the lines
\* WordWrap shows are the words of the text, each once and in order, and a
\* line advance stands between consecutive lines only.
C11_WordsKept ==
  lastOp.op = "WordWrap" => wordsKept

\* C11 (amended): the same, for every text all of whose runes the current
\* Font has or can still be given a code for.
C11_EncodableWordsKept ==
  (lastOp.op = "WordWrap"
     /\ \A j \in DOMAIN lastOp.s : lastOp.s[j] \in DOMAIN pageFont.encode)
  => wordsKept

\* C11 witness: a margin that is not positive, a text of three words, each
\* shown on a line of its own.
C11_Witness ==
  /\ lastOp.op = "WordWrap"
  /\ lastOp.budget <= 0
  /\ Len(fields(lastOp.s)) = 3
  /\ Len(lastLines) = 3
  /\ \A j \in DOMAIN lastOp.s : lastOp.s[j] \in DOMAIN pageFont.encode
  /\ wordsKept

(***************************************************************************)
(* Encoding one glyph: encode with a type3Glyph as its root (SpecGlyph).   *)
(***************************************************************************)
\* Points of the outlines, in 26.6 fixed point: coordinates that are no
\* whole numbers, on both sides of zero, one of them a half.
GlyphPoints ==
  { [ X |-> -70, Y |-> 40 ], [ X |-> 100, Y |-> -33 ], [ X |-> 32, Y |-> -96 ] }

\* Segments as sfnt.LoadGlyph yields them: Args beyond the points of the
\* Op are zero.
GlyphSegments ==
  { g \in [ op : 0..3, args : [ 1..3 -> GlyphPoints \cup {zeroPoint} ] ] :
      \A i \in 1..3 : (i <= pointCount(g)) = (g.args[i] \in GlyphPoints) }

GlyphOutlines == UNION { [ 1..n -> GlyphSegments ] : n \in 0..MaxSegs }

\* Font programs whose glyph for 'A' has the outline o.
GlyphSfnts ==
  { [ adv |-> (65 :> 400), kern |-> << >>, outline |-> (65 :> o),
      bounds |-> << >> ] : o \in GlyphOutlines }

GlyphInit ==
  /\ FontIdle
  /\ EncIdle
  /\ pages = << >>
  /\ docFonts = [ f \in FontNos |-> NewFont ]
  /\ sfnt \in GlyphSfnts
  /\ lastOp = NoOp

\* new(encoder).encode(g) up to the loop, g the type3Glyph of 'A'.
EncodeGlyph ==
  /\ pc = "build"
  /\ Len(outs) < MaxEncodes
  /\ enc' = getRef(write(newEncoder, T("%%PDF-1.7\n")), glyphObj(1, 65))
  /\ rootRef' = enc'.refs[glyphObj(1, 65)]
  /\ idx' = 0
  /\ pc' = "loop"
  /\ fontOrder' = << >>
  /\ UNCHANGED << fontVars, docVars, outs >>

GlyphNext ==
  \/ EncodeGlyph
  \/ EncodeObject
  \/ EncodeEnd

SpecGlyph == GlyphInit /\ [][GlyphNext]_vars

\* The points of an outline: one of a move or line, two of a quadratic,
\* three of a cubic segment.
outlinePoints(outline) ==
  { outline[ki[1]].args[ki[2]] :
      ki \in { kj \in (DOMAIN outline) \X (1..3) :
                 kj[2] <= (IF outline[kj[1]].op \in {0, 1} THEN 1
                           ELSE outline[kj[1]].op) } }

smallest(S) == CHOOSE x \in S : \A y \in S : x <= y

largest(S) == CHOOSE x \in S : \A y \in S : x >= y

\* The box of a set of points with Y negated, outwards to whole numbers:
\* left, bottom, right, top.
pointsBox(ps) ==
  << fixFloor(smallest({ q.X : q \in ps })),
     fixFloor(smallest({ -q.Y : q \in ps })),
     fixCeil(largest({ q.X : q \in ps })),
     fixCeil(largest({ -q.Y : q \in ps })) >>

\* The glyph written by the latest encode.
glyphShown == sfnt.outline[65]

\* The chunk after "stream": the line of the d1 operator.
metricsLine(out) == out[(CHOOSE j \in DOMAIN out : out[j] = T("stream\n")) + 1]

\* C12: the box in the d1 line is the min/max over all points of all
\* segments with Y negated, and the pair written for every segment point
\* lies inside it.
C12_GlyphBox ==
  (pc = "done" /\ glyphShown # << >>) =>
    LET box == pointsBox(outlinePoints(glyphShown)) IN
    /\ metricsLine(lastOut)
         = T("400 0 " \o ToString(box[1]) \o " " \o ToString(box[2]) \o " "
             \o ToString(box[3]) \o " " \o ToString(box[4]) \o " d1\n")
    /\ \A q \in outlinePoints(glyphShown) :
         /\ box[1] <= fixRound(q.X) /\ fixRound(q.X) <= box[3]
         /\ box[2] <= -fixRound(q.Y) /\ -fixRound(q.Y) <= box[4]

\* C12 witness: an encoded glyph of a line and a cubic segment, the lowest
\* point of which is the last point of the cubic only.
C12_Witness ==
  /\ pc = "done"
  /\ Len(glyphShown) = 2
  /\ glyphShown[1].op = 1
  /\ glyphShown[2].op = 3
  /\ glyphShown[1].args[1].Y = 40
  /\ glyphShown[2].args[1].Y = 40
  /\ glyphShown[2].args[2].Y = -33
  /\ glyphShown[2].args[3].Y = -96
  /\ metricsLine(lastOut) = T("400 0 -2 -1 2 2 d1\n")

(***************************************************************************)
(* encode on any finite graph of objects (SpecGraph).  An object is a node *)
(* of a graph g, which gives for every node the nodes its writeTo asks     *)
(* references for, in order; the object carries g as the heap it lives in. *)
(***************************************************************************)
Nodes == 1..MaxNodes

\* The graphs: every node refers to at most MaxRefs nodes, itself and nodes
\* that refer back to it included.
Graphs == [ Nodes -> UNION { [ 1..n -> Nodes ] : n \in 0..MaxRefs } ]

nodeObj(g, n) == Obj("object", n, g)

RECURSIVE writeNodeRefs(_, _, _, _)
\* for _, t := range refs { fmt.Fprintf(e, "%d 0 R ", e.getRef(t)) }
writeNodeRefs(e, g, refs, k) ==
  IF k > Len(refs) THEN e
  ELSE writeNodeRefs(writeRefTo(e, nodeObj(g, refs[k]), "", " 0 R "),
                     g, refs, k + 1)

\* o.writeTo(e) of a node: an array of the references it holds.
writeNode(e, o) ==
  write(writeNodeRefs(write(e, T("[ ")), o.r, o.r[o.n], 1), T("]"))

GraphInit ==
  /\ FontIdle
  /\ EncIdle
  /\ pages = << >>
  /\ docFonts = [ f \in FontNos |-> NewFont ]
  /\ sfnt = NoSfnt
  /\ lastOp = NoOp

\* new(encoder).encode(root) up to the loop, root the node 1 of g.
EncodeGraph(g) ==
  /\ pc = "build"
  /\ enc' = getRef(write(newEncoder, T("%%PDF-1.7\n")), nodeObj(g, 1))
  /\ rootRef' = enc'.refs[nodeObj(g, 1)]
  /\ idx' = 0
  /\ pc' = "loop"
  /\ fontOrder' = << >>
  /\ UNCHANGED << fontVars, docVars, outs >>

\* One iteration of the loop over e.objects, for a node.
EncodeNode ==
  /\ pc = "loop"
  /\ idx < Len(enc.objects)
  /\ enc' = endObj(writeNode(beginObj(enc, idx), enc.objects[idx + 1]))
  /\ idx' = idx + 1
  /\ UNCHANGED << fontVars, docVars, pc, rootRef, fontOrder, outs >>

GraphNext ==
  \/ \E g \in Graphs : EncodeGraph(g)
  \/ EncodeNode
  \/ EncodeEnd

\* encode is sequential code: each iteration of its loop, and its end, is
\* taken once it can be.
SpecGraph ==
  /\ GraphInit
  /\ [][GraphNext]_vars
  /\ WF_vars(EncodeNode)
  /\ WF_vars(EncodeEnd)

\* The graph of the latest encode.
graphEncoded == enc.objects[1].r

\* The nodes that those of S refer to.
succs(g, S) ==
  { g[nk[1]][nk[2]] :
      nk \in { nj \in S \X (1..MaxRefs) : nj[2] <= Len(g[nj[1]]) } }

RECURSIVE reachFrom(_, _)
\* The nodes that can be reached from those of S.
reachFrom(g, S) ==
  IF succs(g, S) \subseteq S THEN S ELSE reachFrom(g, S \cup succs(g, S))

\* C13: encode terminates on every graph, cycles included, and when it ends
\* every registered object has been written once: the "n 0 obj" headers,
\* the offsets and the registered objects are equal in number, and the
\* objects are those that can be reached from the root.
C13_EncodeTerminates ==
  /\ (pc = "loop") ~> (pc = "done")
  /\ [](pc = "done" =>
          /\ idx = Len(enc.objects)
          /\ Len(enc.offsets) = Len(enc.objects)
          /\ Cardinality(written(lastOut)) = Len(enc.objects)
          /\ \A k \in 1..Len(enc.objects) : Cardinality(headerAt(lastOut, k)) = 1
          /\ { o.n : o \in seqRange(enc.objects) } = reachFrom(graphEncoded, {1})
          /\ Cardinality(reachFrom(graphEncoded, {1})) = Len(enc.objects))

\* C13 witness: an encode has ended on a cycle through all nodes in which
\* every node also refers to itself; the second and third node were
\* registered while the loop ran.
C13_Witness ==
  /\ pc = "done"
  /\ graphEncoded = (1 :> << 1, 2 >>) @@ (2 :> << 2, 3 >>) @@ (3 :> << 3, 1 >>)
  /\ Len(enc.objects) = 3
  /\ Cardinality(written(lastOut)) = 3

(***************************************************************************)
(* Font.encodeAndKern on its own (SpecKern): one call with a positive      *)
(* maxWidth on the current font of Page 1, its results kept in lastOp.     *)
(***************************************************************************)
\* Limits in glyph units (1/1000 em), all positive.
KernWidths == {400, 1000, 1200}

\* tj, width := f.encodeAndKern(s, maxWidth) on the current Font of Page i.
EncodeAndKern(i, maxWidth, s) ==
  /\ lastOp.op = "none"
  /\ pages[i].currentFont # 0
  /\ docFonts' = [ docFonts EXCEPT ![pages[i].currentFont] =
                     encodeAndKern(@, sfnt, s, maxWidth).f ]
  /\ lastOp' = [ op |-> "encodeAndKern", s |-> s, budget |-> maxWidth, from |-> 0,
                 tj |-> encodeAndKern(docFonts[pages[i].currentFont],
                                      sfnt, s, maxWidth).tj,
                 width |-> encodeAndKern(docFonts[pages[i].currentFont],
                                         sfnt, s, maxWidth).width ]
  /\ UNCHANGED << fontVars, pages, sfnt, encVars >>

KernNext ==
  \E maxWidth \in KernWidths, s \in textsOver({65, 86}) : EncodeAndKern(1, maxWidth, s)

\* One Page with Font 1 set, as for the text operations.
SpecKern == TextInit /\ [][KernNext]_vars

\* The call stopped early: tj holds fewer glyphs than the text has runes
\* (every rune of the text has a code).
stoppedEarly ==
  /\ lastOp.op = "encodeAndKern"
  /\ \A j \in 1..Len(lastOp.s) : lastOp.s[j] \in DOMAIN pageFont.encode
  /\ Len(arrayCodes(lastOp.tj)) < Len(lastOp.s)

\* C14: when encodeAndKern with a positive maxWidth stops early, the width
\* it returns is the width of the glyphs it emitted, their advances plus
\* the kerns among them, and it is at most maxWidth.
C14_StopWithinBudget ==
  (stoppedEarly /\ lastOp.budget > 0) =>
     /\ lastOp.width = arrayWidth(pageFont.toUnicode, sfnt, lastOp.tj)
     /\ lastOp.width <= lastOp.budget

(***************************************************************************)
(* Font.writeTo on its own (SpecDiff): runes are encoded with Font 1, then *)
(* the Font is encoded as the root object.                                 *)
(***************************************************************************)
MaxDiffFresh == 30

\* Windows-1252 runes offered: a control character, whose code lies in the
\* first spill range, and the Euro sign, of code 128.
DiffBase == {30, 8364}

\* The runes outside Windows-1252 that Font 1 has encoded.
diffFresh == Cardinality({ r \in DOMAIN docFonts[1].encode : r >= NonBase(0) })

\* f.encodeRune(r) on Font 1 before it is encoded.
DiffRune(r) ==
  /\ pc = "build"
  /\ r \notin DOMAIN docFonts[1].encode
  /\ docFonts' = [ docFonts EXCEPT ![1] = encodeRune(@, r).f ]
  /\ UNCHANGED << fontVars, pages, sfnt, lastOp, encVars >>

\* new(encoder).encode(f) up to the loop, f Font 1.
EncodeFont ==
  /\ pc = "build"
  /\ enc' = getRef(write(newEncoder, T("%%PDF-1.7\n")), fontObj(1))
  /\ rootRef' = enc'.refs[fontObj(1)]
  /\ idx' = 0
  /\ pc' = "loop"
  /\ fontOrder' = << >>
  /\ UNCHANGED << fontVars, docVars, outs >>

DiffNext ==
  \/ \E r \in DiffBase : DiffRune(r)
  \/ diffFresh < MaxDiffFresh /\ DiffRune(NonBase(diffFresh))
  \/ EncodeFont
  \/ EncodeObject
  \/ EncodeEnd

\* As for the graphs: fonts as LoadFont leaves them, no encoder used yet.
SpecDiff == GraphInit /\ [][DiffNext]_vars

\* toUnicode of the Font encoded, its firstChar and lastChar.
diffTable == docFonts[1].toUnicode

diffFirst == firstCharOf(diffTable)

diffLast == lastCharOf(diffTable, diffFirst)

\* The Differences array Font.writeTo has built.
diffArray == fontTables(diffTable, sfnt, diffFirst, diffLast).differences

\* The line of the font dictionary that holds the encoding.
encodingLine(out) ==
  out[(CHOOSE j \in DOMAIN out : out[j] = T("<< /Type /Font /Subtype /Type3\n")) + 1]

\* An entry of a Differences array is a code number or a name.
isNumber(entry) == \E i \in 0..255 : entry = ToString(i)

numberOf(entry) == CHOOSE i \in 0..255 : entry = ToString(i)

RECURSIVE readDifferences(_, _, _, _)
\* A Differences array d read from entry k on: a number sets the current
\* code, a name is assigned to the current code, which is then incremented.
\* Yields the << code, name >> assignments in the order they are made.
readDifferences(d, k, code, out) ==
  IF k > Len(d) THEN out
  ELSE IF isNumber(d[k])
  THEN readDifferences(d, k + 1, numberOf(d[k]), out)
  ELSE readDifferences(d, k + 1, code + 1, Append(out, << code, d[k] >>))

\* The code numbers of a Differences array, in order.
diffNumbers(d) ==
  LET ks == sortedCodes({ k \in DOMAIN d : isNumber(d[k]) })
  IN [ j \in DOMAIN ks |-> numberOf(d[ks[j]]) ]

\* The populated codes of firstChar..lastChar whose rune is not the one
\* Windows-1252 decodes the code to.
differing ==
  { i \in diffFirst..diffLast :
      diffTable[i] # 0 /\ diffTable[i] # Windows1252DecodeByte(i) }

\* C15: the Differences array of an encoded Font, read as a PDF reader
\* does, assigns the name of toUnicode[i] to code i for exactly the
\* differing codes, each once and in increasing order, and its code numbers
\* are exactly the differing codes whose predecessor i - 1 is not differing;
\* the dictionary holds that array, or the plain base encoding when no code
\* differs.
C15_DifferencesRead ==
  pc = "done" =>
    /\ readDifferences(diffArray, 1, -1, << >>)
         = [ j \in 1..Cardinality(differing) |->
               << sortedCodes(differing)[j],
                  "/" \o glyphName(diffTable[sortedCodes(differing)[j]]) >> ]
    /\ diffNumbers(diffArray)
         = sortedCodes({ i \in differing : (i - 1) \notin differing })
    /\ encodingLine(lastOut) =
         IF differing = {}
         THEN T("/Encoding /WinAnsiEncoding\n")
         ELSE T("/Encoding << /BaseEncoding /WinAnsiEncoding /Differences "
                \o fmtStrings(diffArray) \o " >>\n")

\* C15 witness: a Font has been encoded in which codes 2..29 and 31 differ,
\* code 30 is populated with its Windows-1252 rune, an unpopulated stretch
\* lies before the differing code 126, and code 128 holds the Euro sign:
\* three runs of names.
C15_Witness ==
  /\ pc = "done"
  /\ {2, 28, 29, 31, 126} \subseteq differing
  /\ diffTable[30] = 30
  /\ diffTable[100] = 0
  /\ diffTable[128] = 8364
  /\ diffNumbers(diffArray) = << 2, 31, 126 >>

(***************************************************************************)
(* encoder.encode called again on an encoder that has been used            *)
(* (SpecReuse): after an encode of a graph has ended, a node of the graph  *)
(* is encoded with the same encoder.                                       *)
(***************************************************************************)
\* e.Reset(); e.offsets = nil; e.refs = make(map[object]int).  These are
\* all the assignments encode makes before it registers the root:
\* e.objects is left as it is.
resetEncoder(e) == [ e EXCEPT !.buf = << >>, !.offsets = << >>, !.refs = << >> ]

\* e.encode(root) up to the loop, e the encoder of the encode that has
\* ended and root the node n of the graph encoded then.
EncodeAgain(n) ==
  /\ pc = "done"
  /\ Len(outs) < MaxEncodes
  /\ enc' = getRef(write(resetEncoder(enc), T("%%PDF-1.7\n")),
                   nodeObj(graphEncoded, n))
  /\ rootRef' = enc'.refs[nodeObj(graphEncoded, n)]
  /\ idx' = 0
  /\ pc' = "loop"
  /\ fontOrder' = << >>
  /\ UNCHANGED << fontVars, docVars, outs >>

ReuseNext ==
  \/ \E g \in Graphs : EncodeGraph(g)
  \/ \E n \in Nodes : EncodeAgain(n)
  \/ EncodeNode
  \/ EncodeEnd

SpecReuse == GraphInit /\ [][ReuseNext]_vars

\* The root of the latest encode.
rootEncoded == enc.objects[rootRef].n

\* C16: an encode on an encoder used before behaves as on a fresh one: the
\* root gets reference number 1, the objects written and counted are those
\* that can be reached from the root, and for the root of the earlier call
\* the bytes are those the fresh encoder returned.
C16_ReuseAsFresh ==
  (pc = "done" /\ Len(outs) = 2) =>
     /\ rootRef = 1
     /\ Len(enc.objects) = Cardinality(reachFrom(graphEncoded, {rootEncoded}))
     /\ Cardinality(written(lastOut)) = Cardinality(reachFrom(graphEncoded, {rootEncoded}))
     /\ (rootEncoded = 1 => outs[2] = outs[1])

====
